---------------------------- MODULE Spec2Model ----------------------------
(***************************************************************************)
(* Compound wallet risk scoring: the pipeline of src/src/main.py           *)
(*   process_wallet_data -> calculate_wallet_metrics ->                    *)
(*   calculate_risk_features -> detect_anomalies -> calculate_scores       *)
(* as a state machine.                                                     *)
(*                                                                         *)
(* Numbers.  A float of the program is held exactly:                       *)
(*   - a metric is a rational <<n, d>> (d > 0, lowest terms) or NaN;       *)
(*   - a sub-score, the composite and the final risk are integers in      *)
(*     units of 1/Unit, so 1.0 is Unit.                                    *)
(* Float rounding error of the interpreter is not modelled.                *)
(***************************************************************************)
EXTENDS Integers, Sequences, FiniteSets, TLC

VARIABLES
    pc,              \* position of main(): which stage runs next
                     \*   ("fetch" ->) "process" -> "metrics" -> "features" ->
                     \*   "anomalies" -> "scores" -> "done", or "raised"
    wallet_data,     \* the fetched batch: a list of {address, transactions}
    transaction_df,  \* processor.processed_data / transaction_df of main
    wallet_metrics,  \* the WalletMetrics table
    risk_features,   \* risk_analyzer.risk_features
    anomaly_scores,  \* the series detect_anomalies returns
    composite_score,   \* calculate_scores' local: the composite risk series
    final_risk_score,  \* calculate_scores' local: the clipped final risk series
    scores,          \* score_calculator.scores (None until calculate_scores)
    weights,         \* score_calculator.weights
    fitted,          \* what the seeded isolation forest returned: {<<X, scores>>}
    runs,            \* the outcomes of the finished runs on this batch
    raised,          \* "" or the exception that ended the run
    returned,        \* what the last completed calculate_scores returned
    reply            \* what the last query of the calculator returned or raised

vars == <<pc, wallet_data, transaction_df, wallet_metrics, risk_features,
          anomaly_scores, composite_score, final_risk_score, scores, weights,
          fitted, runs, raised, returned, reply>>

-----------------------------------------------------------------------------
(* Bounds of the model *)

\* transactions in a batch, over all its wallets
MaxTxs == 3
\* raw decision scores of the isolation forest are drawn from 0..MaxDecision
MaxDecision == 2
\* runs of the pipeline on one batch
MaxRuns == 2
\* transactions of the wallet of a fetched or cached batch
MaxFetched == 2
MaxActions == 6

-----------------------------------------------------------------------------
(* Arithmetic *)

Max(a, b) == IF a >= b THEN a ELSE b
Min(a, b) == IF a <= b THEN a ELSE b

RECURSIVE GCD(_, _)
GCD(a, b) == IF b = 0 THEN a ELSE GCD(b, a % b)

RECURSIVE LCMUpTo(_)
LCMUpTo(n) == IF n <= 1 THEN 1
              ELSE LET l == LCMUpTo(n - 1) IN (l * n) \div GCD(l, n)

\* 1.0 in the fixed-point unit: every weight (1/20), every threshold (1/1000)
\* and every ratio with a denominator up to the bounds is a whole number of units
Unit == 20000 * LCMUpTo(Max(MaxTxs, MaxDecision))

\* an attribute that is None, or holds the table df
None == <<>>
Some(df) == <<df>>
\* float('nan')
NaN == <<"nan">>
IsNaN(x) == x = NaN

\* the rational n/d in lowest terms (n >= 0, d > 0)
Rat(n, d) == LET g == GCD(n, d) IN <<n \div g, d \div g>>
RLt(a, b) == a[1] * b[2] < b[1] * a[2]
RLe(a, b) == a[1] * b[2] <= b[1] * a[2]
\* float comparisons: any comparison with NaN is False
FGt(a, b) == ~IsNaN(a) /\ ~IsNaN(b) /\ RLt(b, a)
FLt(a, b) == ~IsNaN(a) /\ ~IsNaN(b) /\ RLt(a, b)
FGe(a, b) == ~IsNaN(a) /\ ~IsNaN(b) /\ RLe(b, a)
FLe(a, b) == ~IsNaN(a) /\ ~IsNaN(b) /\ RLe(a, b)
\* a rational in units of 1/Unit (exact: its denominator divides Unit)
ToUnit(r) == (r[1] * Unit) \div r[2]
\* x * num/den for a fixed-point x
Scale(x, num, den) == (x * num) \div den

\* np.clip(x, lo, hi)
Clip(x, lo, hi) == IF x < lo THEN lo ELSE IF x > hi THEN hi ELSE x

RECURSIVE SumSeq(_)
SumSeq(s) == IF s = <<>> THEN 0 ELSE Head(s) + SumSeq(Tail(s))

Range(s) == {s[i] : i \in DOMAIN s}

-----------------------------------------------------------------------------
(* The fetched batch *)

\* wallet addresses, in their lexicographic order
Addresses == <<"0xa", "0xb">>
AddrRank(a) == CHOOSE i \in DOMAIN Addresses : Addresses[i] = a

Day == 86400
Hour == 3600

\* Raw transaction records as fetch_wallet_data hands them on.  timeStamp 0 is
\* Thursday 1970-01-01 00:00 UTC; 2 * Day is a Saturday.  "interact" is a label
\* _classify_compound_action gives a signature outside its table.
RawTxs ==
    { [hash |-> "t1", timeStamp |-> 0, compound_action |-> "mint",
       isError |-> 0, gasUsed |-> 1, gasPrice |-> 1],
      [hash |-> "t2", timeStamp |-> Day, compound_action |-> "repayBorrow",
       isError |-> 0, gasUsed |-> 1, gasPrice |-> 2],
      [hash |-> "t3", timeStamp |-> 12 * Hour, compound_action |-> "borrow",
       isError |-> 1, gasUsed |-> 2, gasPrice |-> 2],
      [hash |-> "t4", timeStamp |-> 2 * Day, compound_action |-> "liquidateBorrow",
       isError |-> 0, gasUsed |-> 3, gasPrice |-> 1],
      [hash |-> "t5", timeStamp |-> 40 * Day, compound_action |-> "interact",
       isError |-> 2, gasUsed |-> 1, gasPrice |-> 1],
      [hash |-> "t6", timeStamp |-> 12 * Hour, compound_action |-> "redeem",
       isError |-> 0, gasUsed |-> 1, gasPrice |-> 1] }

\* lists of distinct addresses
AddressLists ==
    {<<>>} \cup {<<a>> : a \in Range(Addresses)}
           \cup {ab \in Range(Addresses) \X Range(Addresses) : ab[1] # ab[2]}

\* the transaction lists of n wallets that hold at most budget transactions
RECURSIVE TxAssignments(_, _)
TxAssignments(n, budget) ==
    IF n = 0 THEN {<<>>}
    ELSE UNION { {<<t>> \o rest : t \in [1..k -> RawTxs],
                                  rest \in TxAssignments(n - 1, budget - k)} :
                 k \in 0..budget }

\* every batch of at most MaxTxs transactions
Batches ==
    UNION { { [i \in DOMAIN addrs |->
                 [address |-> addrs[i], transactions |-> txs[i]]] :
              txs \in TxAssignments(Len(addrs), MaxTxs) } :
            addrs \in AddressLists }

-----------------------------------------------------------------------------
(* CompoundDataProcessor.process_wallet_data *)

\* tx.get(key, default)
TxGet(tx, key, default) == IF key \in DOMAIN tx THEN tx[key] ELSE default

\* ProcessedTx that takes a transaction without isError for a failed one
ProcessedTxErrorByDefault(address, tx) ==
    LET ts == TxGet(tx, "timeStamp", 0)
    IN [wallet_address |-> address,
        tx_hash        |-> TxGet(tx, "hash", ""),
        timestamp      |-> ts,
        tx_fee         |-> TxGet(tx, "gasUsed", 0) * TxGet(tx, "gasPrice", 0),
        compound_action |-> TxGet(tx, "compound_action", "unknown"),
        is_error       |-> TxGet(tx, "isError", 1),
        date           |-> ts \div Day,
        hour           |-> (ts % Day) \div Hour,
        day_of_week    |-> ((ts \div Day) + 3) % 7]

\* one normalized row; tx_fee is kept in wei (the source divides by 1e18)
ProcessedTx(address, tx) ==
    LET ts == TxGet(tx, "timeStamp", 0)
    IN [wallet_address |-> address,
        tx_hash        |-> TxGet(tx, "hash", ""),
        timestamp      |-> ts,
        tx_fee         |-> TxGet(tx, "gasUsed", 0) * TxGet(tx, "gasPrice", 0),
        compound_action |-> TxGet(tx, "compound_action", "unknown"),
        is_error       |-> TxGet(tx, "isError", 0),
        date           |-> ts \div Day,
        hour           |-> (ts % Day) \div Hour,
        day_of_week    |-> ((ts \div Day) + 3) % 7]

\* wallet.get('transactions', [])
WalletTransactions(wallet) ==
    IF "transactions" \in DOMAIN wallet THEN wallet.transactions ELSE <<>>

RECURSIVE AllTransactions(_)
AllTransactions(wd) ==
    IF wd = <<>> THEN <<>>
    ELSE [i \in DOMAIN WalletTransactions(Head(wd)) |->
             ProcessedTx(Head(wd).address, WalletTransactions(Head(wd))[i])]
         \o AllTransactions(Tail(wd))

\* the sort key (wallet_address, timestamp)
KeyLe(r1, r2) ==
    \/ AddrRank(r1.wallet_address) < AddrRank(r2.wallet_address)
    \/ /\ r1.wallet_address = r2.wallet_address
       /\ r1.timestamp <= r2.timestamp

\* Insert that puts row r before the rows whose key equals r's
RECURSIVE InsertBeforeEqual(_, _)
InsertBeforeEqual(r, sorted) ==
    IF sorted = <<>> THEN <<r>>
    ELSE IF KeyLe(Head(sorted), r) /\ ~KeyLe(r, Head(sorted))
         THEN <<Head(sorted)>> \o InsertBeforeEqual(r, Tail(sorted))
    ELSE <<r>> \o sorted

\* insert row r after every row whose key is <= r's (stable)
RECURSIVE Insert(_, _)
Insert(r, sorted) ==
    IF sorted = <<>> THEN <<r>>
    ELSE IF KeyLe(Head(sorted), r) THEN <<Head(sorted)>> \o Insert(r, Tail(sorted))
    ELSE <<r>> \o sorted

\* df.sort_values(['wallet_address', 'timestamp'])
RECURSIVE SortValues(_)
SortValues(rows) ==
    IF rows = <<>> THEN <<>>
    ELSE Insert(rows[Len(rows)], SortValues(SubSeq(rows, 1, Len(rows) - 1)))

ProcessWalletDataResult(wd) == SortValues(AllTransactions(wd))

ProcessWalletData ==
    /\ pc = "process"
    /\ transaction_df' = ProcessWalletDataResult(wallet_data)
    /\ pc' = "metrics"
    /\ UNCHANGED <<wallet_data, wallet_metrics, risk_features, anomaly_scores,
                   composite_score, final_risk_score, scores, weights, fitted, runs,
                   raised, returned, reply>>

-----------------------------------------------------------------------------
(* CompoundDataProcessor.calculate_wallet_metrics *)

\* SeqMin that measures from the epoch instead of the earliest member
SeqMinFromEpoch(s) == 0

SeqMin(s) == CHOOSE x \in Range(s) : \A y \in Range(s) : x <= y
SeqMax(s) == CHOOSE x \in Range(s) : \A y \in Range(s) : x >= y

\* sum of (k * x - S)^2 over a list of k numbers with sum S: k^2 times the
\* sum of squared deviations from the mean
SqDev(xs) ==
    LET k == Len(xs)
        S == SumSeq(xs)
    IN SumSeq([i \in DOMAIN xs |-> (k * xs[i] - S) * (k * xs[i] - S)])

\* Series.var() (ddof = 1): NaN for a single value
SeriesVar(xs) ==
    LET k == Len(xs)
    IN IF k < 2 THEN NaN ELSE Rat(SqDev(xs), k * k * (k - 1))

\* Series.diff().dropna() / 3600, for timestamps on whole hours
TimeDiffs(ts) == [i \in 1..(Len(ts) - 1) |-> (ts[i + 1] - ts[i]) \div Hour]

\* time_diffs.std() / time_diffs.mean().  A standard deviation is held as its
\* square (the variance) and activity_regularity as the squared coefficient of
\* variation: taking the root keeps 0, NaN and the order of the values.
Regularity(diffs) ==
    LET k == Len(diffs)
        S == SumSeq(diffs)
    IN IF S > 0
       THEN (IF k < 2 THEN NaN ELSE Rat(SqDev(diffs), (k - 1) * S * S))
       ELSE Rat(0, 1)

ActionCount(txs, action) ==
    Cardinality({i \in DOMAIN txs : txs[i].compound_action = action})

\* txs.groupby('date').size(): the transactions of each day that has any
DailyTxCounts(txs) ==
    LET dates == {txs[i].date : i \in DOMAIN txs}
        f == CHOOSE g \in [1..Cardinality(dates) -> dates] :
                 \A i, j \in DOMAIN g : i < j => g[i] < g[j]
    IN [i \in DOMAIN f |-> Cardinality({j \in DOMAIN txs : txs[j].date = f[i]})]

\* the denominator of the action ratios, taken over every transaction
TotalActionsOfEveryLabel(txs) == Len(txs)

\* the denominator of the action ratios, liquidations included
TotalActionsWithLiquidations(txs) ==
    ActionCount(txs, "mint") + ActionCount(txs, "redeem")
    + ActionCount(txs, "redeemUnderlying") + ActionCount(txs, "borrow")
    + ActionCount(txs, "repayBorrow") + ActionCount(txs, "liquidateBorrow")

\* total_actions: the denominator of the action ratios
TotalActions(txs) ==
    ActionCount(txs, "mint") + ActionCount(txs, "redeem")
    + ActionCount(txs, "redeemUnderlying") + ActionCount(txs, "borrow")
    + ActionCount(txs, "repayBorrow")

CalculateSingleWalletMetrics(address, txs) ==
    LET total      == Len(txs)
        successful == Cardinality({i \in DOMAIN txs : txs[i].is_error = 0})
        failed     == Cardinality({i \in DOMAIN txs : txs[i].is_error = 1})
        ts         == [i \in DOMAIN txs |-> txs[i].timestamp]
        first      == IF total > 0 THEN SeqMin(ts) ELSE 0
        last       == IF total > 0 THEN SeqMax(ts) ELSE 0
        mint       == ActionCount(txs, "mint")
        redeem     == ActionCount(txs, "redeem")
        redeemU    == ActionCount(txs, "redeemUnderlying")
        borrow     == ActionCount(txs, "borrow")
        repay      == ActionCount(txs, "repayBorrow")
        liquidate  == ActionCount(txs, "liquidateBorrow")
        total_actions == TotalActions(txs)
        ratio(n)   == IF total_actions > 0 THEN Rat(n, total_actions) ELSE Rat(0, 1)
        succ_txs   == SelectSeq(txs, LAMBDA r : r.is_error = 0)
        fees       == [i \in DOMAIN succ_txs |-> succ_txs[i].tx_fee]
        diffs      == TimeDiffs(ts)
        daily      == DailyTxCounts(txs)
    IN [wallet_address          |-> address,
        total_transactions      |-> total,
        successful_transactions |-> successful,
        failed_transactions     |-> failed,
        success_rate            |-> Rat(successful, Max(total, 1)),
        first_tx_date           |-> first,
        last_tx_date            |-> last,
        account_age_days        |-> Rat(last - first, Day),
        avg_tx_interval_days    |-> Rat(last - first, Day * Max(total - 1, 1)),
        mint_count              |-> mint,
        redeem_count            |-> redeem,
        redeemUnderlying_count  |-> redeemU,
        borrow_count            |-> borrow,
        repayBorrow_count       |-> repay,
        liquidateBorrow_count   |-> liquidate,
        supply_ratio            |-> ratio(mint),
        withdraw_ratio          |-> ratio(redeem + redeemU),
        borrow_ratio            |-> ratio(borrow),
        repay_ratio             |-> ratio(repay),
        liquidation_count       |-> liquidate,
        has_liquidations        |-> IF liquidate > 0 THEN 1 ELSE 0,
        liquidation_rate        |-> Rat(liquidate, Max(total, 1)),
        avg_gas_per_tx          |-> IF Len(succ_txs) > 0
                                    THEN Rat(SumSeq(fees), Len(succ_txs))
                                    ELSE Rat(0, 1),
        avg_time_between_txs    |-> IF total > 1
                                    THEN Rat(SumSeq(diffs), Len(diffs))
                                    ELSE Rat(0, 1),
        std_time_between_txs    |-> IF total > 1 THEN SeriesVar(diffs) ELSE Rat(0, 1),
        activity_regularity     |-> IF total > 1 THEN Regularity(diffs) ELSE Rat(0, 1),
        action_diversity        |-> Cardinality({txs[i].compound_action : i \in DOMAIN txs}),
        weekend_activity_ratio  |->
            Rat(Cardinality({i \in DOMAIN txs : txs[i].day_of_week \in {5, 6}}),
                Max(total, 1)),
        night_activity_ratio    |->
            Rat(Cardinality({i \in DOMAIN txs : txs[i].hour >= 0 /\ txs[i].hour <= 6}),
                Max(total, 1)),
        repay_to_borrow_ratio   |-> Rat(repay, Max(borrow, 1)),
        max_daily_transactions  |-> IF total > 0 THEN SeqMax(daily) ELSE 0,
        avg_daily_transactions  |-> IF total > 0 THEN Rat(total, Len(daily)) ELSE Rat(0, 1),
        daily_activity_variance |-> IF total > 0 /\ Len(daily) > 1
                                    THEN SeriesVar(daily) ELSE Rat(0, 1)]

\* df.groupby('wallet_address'): one group per address that has a row, in
\* address order, each with its rows in table order
GroupKeys(df) ==
    SelectSeq(Addresses, LAMBDA a : \E i \in DOMAIN df : df[i].wallet_address = a)

CalculateWalletMetricsResult(df) ==
    IF Len(df) = 0 THEN <<>>
    ELSE LET keys == GroupKeys(df)
         IN [g \in DOMAIN keys |->
                CalculateSingleWalletMetrics(
                    keys[g], SelectSeq(df, LAMBDA r : r.wallet_address = keys[g]))]

CalculateWalletMetrics ==
    /\ pc = "metrics"
    /\ wallet_metrics' = CalculateWalletMetricsResult(transaction_df)
    /\ pc' = "features"
    /\ UNCHANGED <<wallet_data, transaction_df, risk_features, anomaly_scores,
                   composite_score, final_risk_score, scores, weights, fitted, runs,
                   raised, returned, reply>>

-----------------------------------------------------------------------------
(* WalletRiskAnalyzer.calculate_risk_features *)

Col(df, name) == [i \in DOMAIN df |-> df[i][name]]
\* an integer column as floats
AsFloat(col) == [i \in DOMAIN col |-> Rat(col[i], 1)]

\* the k-th smallest of a list of rationals
OrderStat(vals, k) ==
    CHOOSE v \in Range(vals) :
        /\ Cardinality({i \in DOMAIN vals : RLt(vals[i], v)}) < k
        /\ Cardinality({i \in DOMAIN vals : RLe(vals[i], v)}) >= k

\* x > col.quantile(qn / qd) for a member x of the column.  The quantile skips
\* NaN and interpolates linearly between the order statistics lo and hi around
\* position (qn / qd) * (n - 1): Q = v_lo + frac * (v_hi - v_lo).  With frac = 0
\* Q is v_lo; otherwise Q lies in [v_lo, v_hi), strictly above v_lo when
\* v_lo < v_hi, and no member of the column lies strictly between the two:
\* a member exceeds Q exactly when it is >= v_hi and > v_lo.
AboveQuantile(x, col, qn, qd) ==
    LET vals == SelectSeq(col, LAMBDA v : ~IsNaN(v))
        n    == Len(vals)
        pos  == qn * (n - 1)
        lo   == (pos \div qd) + 1
        frac == pos % qd
    IN /\ n > 0
       /\ ~IsNaN(x)
       /\ RLt(OrderStat(vals, lo), x)
       /\ frac > 0 => RLe(OrderStat(vals, lo + 1), x)

\* col.max() > 0
MaxPositive(col) == \E i \in DOMAIN col : FGt(col[i], Rat(0, 1))

\* the fraction num/den of 1.0 when the mask holds
Bonus(mask, num, den) == IF mask THEN Scale(Unit, num, den) ELSE 0

\* CalculateLiquidationRisk without its final np.clip
LiquidationRiskUnclipped(df, i) ==
    Scale(df[i].liquidation_count * Unit, 5, 10)
    + Scale(ToUnit(df[i].liquidation_rate), 3, 10)
    + Scale(df[i].has_liquidations * Unit, 2, 10)

CalculateLiquidationRisk(df, i) ==
    Clip(Scale(df[i].liquidation_count * Unit, 5, 10)
         + Scale(ToUnit(df[i].liquidation_rate), 3, 10)
         + Scale(df[i].has_liquidations * Unit, 2, 10), 0, Unit)

CalculateBehavioralRisk(df, i) ==
    Clip(Scale(Unit - ToUnit(df[i].success_rate), 3, 10)
         + Bonus(AboveQuantile(df[i].activity_regularity,
                               Col(df, "activity_regularity"), 8, 10), 2, 10)
         + Scale(Clip(ToUnit(df[i].weekend_activity_ratio) - Scale(Unit, 3, 10),
                      0, Unit), 2, 10)
         + Scale(Clip(ToUnit(df[i].night_activity_ratio) - Scale(Unit, 2, 10),
                      0, Unit), 3, 10), 0, Unit)

\* CalculateFinancialHealth without the deduction for a poor repayment ratio
FinancialHealthRepaymentIgnored(df, i) ==
    Clip(Unit
         - Bonus(df[i].action_diversity <= 2, 2, 10)
         - Bonus(FLt(df[i].account_age_days, Rat(30, 1)), 2, 10)
         - Bonus(/\ MaxPositive(Col(df, "avg_gas_per_tx"))
                 /\ AboveQuantile(df[i].avg_gas_per_tx,
                                  Col(df, "avg_gas_per_tx"), 9, 10), 2, 10),
         0, Unit)

CalculateFinancialHealth(df, i) ==
    Clip(Unit
         - Bonus(FLt(df[i].repay_to_borrow_ratio, Rat(8, 10)), 4, 10)
         - Bonus(df[i].action_diversity <= 2, 2, 10)
         - Bonus(FLt(df[i].account_age_days, Rat(30, 1)), 2, 10)
         - Bonus(/\ MaxPositive(Col(df, "avg_gas_per_tx"))
                 /\ AboveQuantile(df[i].avg_gas_per_tx,
                                  Col(df, "avg_gas_per_tx"), 9, 10), 2, 10),
         0, Unit)

CalculateActivityPatternRisk(df, i) ==
    Clip(Bonus(/\ MaxPositive(Col(df, "daily_activity_variance"))
               /\ AboveQuantile(df[i].daily_activity_variance,
                                Col(df, "daily_activity_variance"), 8, 10), 3, 10)
         + Bonus(/\ MaxPositive(AsFloat(Col(df, "max_daily_transactions")))
                 /\ AboveQuantile(Rat(df[i].max_daily_transactions, 1),
                                  AsFloat(Col(df, "max_daily_transactions")), 9, 10),
                 4, 10)
         \* activity_regularity < 0.1, on the squared value
         + Bonus(/\ FLt(df[i].activity_regularity, Rat(1, 100))
                 /\ df[i].total_transactions > 5, 3, 10),
         0, Unit)

\* CalculateRepaymentBehavior with the no-borrowing credit kept from a wallet
\* that already has the good-repayment credit
RepaymentBehaviorDeduplicated(df, i) ==
    Clip(Bonus(FGe(df[i].repay_to_borrow_ratio, Rat(1, 1)), 5, 10)
         + Bonus(/\ FGe(df[i].repay_to_borrow_ratio, Rat(8, 10))
                 /\ FLt(df[i].repay_to_borrow_ratio, Rat(1, 1)), 3, 10)
         + Bonus(/\ ~(df[i].borrow_count > 0)
                 /\ ~FGe(df[i].repay_to_borrow_ratio, Rat(1, 1)), 2, 10)
         + Bonus(df[i].liquidation_count = 0, 3, 10),
         0, Unit)

CalculateRepaymentBehavior(df, i) ==
    Clip(Bonus(FGe(df[i].repay_to_borrow_ratio, Rat(1, 1)), 5, 10)
         + Bonus(/\ FGe(df[i].repay_to_borrow_ratio, Rat(8, 10))
                 /\ FLt(df[i].repay_to_borrow_ratio, Rat(1, 1)), 3, 10)
         + Bonus(~(df[i].borrow_count > 0), 2, 10)
         + Bonus(df[i].liquidation_count = 0, 3, 10),
         0, Unit)

\* the age bins (0, 30], (30, 90], (90, 180], (180, 365], (365, inf)
AgeScore(age) ==
    IF FGt(age, Rat(365, 1)) THEN Scale(Unit, 10, 10)
    ELSE IF FGt(age, Rat(180, 1)) THEN Scale(Unit, 7, 10)
    ELSE IF FGt(age, Rat(90, 1)) THEN Scale(Unit, 5, 10)
    ELSE IF FGt(age, Rat(30, 1)) THEN Scale(Unit, 3, 10)
    ELSE IF FGt(age, Rat(0, 1)) THEN Scale(Unit, 1, 10)
    ELSE 0

CalculateExperienceScore(df, i) ==
    Clip(AgeScore(df[i].account_age_days)
         + Bonus(AboveQuantile(Rat(df[i].total_transactions, 1),
                               AsFloat(Col(df, "total_transactions")), 7, 10), 2, 10)
         \* 0.1 < activity_regularity < 1.0, on the squared value
         + Bonus(/\ FGt(df[i].activity_regularity, Rat(1, 100))
                 /\ FLt(df[i].activity_regularity, Rat(1, 1)), 1, 10),
         0, Unit)

RMax(a, b) == IF RLe(a, b) THEN b ELSE a

CalculateDiversificationScore(df, i) ==
    Clip(Clip(Scale(df[i].action_diversity * Unit, 1, 5), 0, Scale(Unit, 6, 10))
         + Scale(Unit - ToUnit(RMax(RMax(df[i].supply_ratio, df[i].withdraw_ratio),
                                    RMax(df[i].borrow_ratio, df[i].repay_ratio))),
                 4, 10),
         0, Unit)

CalculateBotBehaviorScore(df, i) ==
    Clip(\* activity_regularity < 0.05, on the squared value
         Bonus(/\ FLt(df[i].activity_regularity, Rat(1, 400))
               /\ df[i].total_transactions > 10, 4, 10)
         + Bonus(FGt(df[i].night_activity_ratio, Rat(5, 10)), 3, 10)
         + Bonus(/\ MaxPositive(AsFloat(Col(df, "max_daily_transactions")))
                 /\ df[i].max_daily_transactions > 50, 3, 10),
         0, Unit)

\* the 8 sub-score columns
SubScores ==
    {"liquidation_risk_score", "behavioral_risk_score", "financial_health_score",
     "activity_pattern_risk", "repayment_behavior_score", "experience_score",
     "diversification_score", "bot_behavior_score"}

CalculateRiskFeaturesResult(df) ==
    [i \in DOMAIN df |->
        df[i] @@
        [liquidation_risk_score   |-> CalculateLiquidationRisk(df, i),
         behavioral_risk_score    |-> CalculateBehavioralRisk(df, i),
         financial_health_score   |-> CalculateFinancialHealth(df, i),
         activity_pattern_risk    |-> CalculateActivityPatternRisk(df, i),
         repayment_behavior_score |-> CalculateRepaymentBehavior(df, i),
         experience_score         |-> CalculateExperienceScore(df, i),
         diversification_score    |-> CalculateDiversificationScore(df, i),
         bot_behavior_score       |-> CalculateBotBehaviorScore(df, i)]]

\* An empty wallet_metrics is pd.DataFrame(): it has no column, and the first
\* column read, df['liquidation_count'], raises KeyError.
CalculateRiskFeatures ==
    /\ pc = "features"
    /\ IF Len(wallet_metrics) = 0
       THEN /\ raised' = "KeyError"
            /\ pc' = "raised"
            /\ UNCHANGED risk_features
       ELSE /\ risk_features' = CalculateRiskFeaturesResult(wallet_metrics)
            /\ pc' = "anomalies"
            /\ UNCHANGED raised
    /\ UNCHANGED <<wallet_data, transaction_df, wallet_metrics, anomaly_scores,
                   composite_score, final_risk_score, scores, weights, fitted,
                   runs, returned, reply>>

-----------------------------------------------------------------------------
(* WalletRiskAnalyzer.detect_anomalies *)

NumericalFeatures ==
    {"total_transactions", "success_rate", "account_age_days", "liquidation_count",
     "repay_to_borrow_ratio", "action_diversity", "activity_regularity",
     "max_daily_transactions"}

\* the columns of numerical_features that hold floats
FloatFeatures ==
    {"success_rate", "account_age_days", "repay_to_borrow_ratio",
     "activity_regularity"}

\* X = risk_features[available_features].fillna(0)
FeatureMatrix(df) ==
    [i \in DOMAIN df |->
        [f \in NumericalFeatures |->
            IF f \in FloatFeatures /\ IsNaN(df[i][f]) THEN Rat(0, 1) ELSE df[i][f]]]

\* The raw decision scores of the fitted isolation forest: one value per row,
\* a function of the row of X (equal rows score equally).  The forest itself
\* is library code; its scores are any such values.
DecisionScores(df) ==
    LET X == FeatureMatrix(df)
    IN {d \in [DOMAIN df -> 0..MaxDecision] :
           \A i, j \in DOMAIN df : X[i] = X[j] => d[i] = d[j]}

\* (d - d.min()) / (d.max() - d.min()); numpy gives 0/0 = nan
Normalize(d) ==
    LET lo == SeqMin(d)
        hi == SeqMax(d)
    IN [i \in DOMAIN d |-> IF hi = lo THEN NaN ELSE Rat(d[i] - lo, hi - lo)]

\* DetectAnomalies with a forest that draws fresh random numbers on every fit
DetectAnomaliesUnseeded ==
    /\ pc = "anomalies"
    /\ \E d \in DecisionScores(risk_features) :
           /\ fitted' = fitted \cup {<<FeatureMatrix(risk_features), d>>}
           /\ anomaly_scores' = Normalize(d)
    /\ pc' = "scores"
    /\ UNCHANGED <<wallet_data, transaction_df, wallet_metrics, risk_features,
                   composite_score, final_risk_score, scores, weights, runs,
                   raised, returned, reply>>

\* detect_anomalies.  IsolationForest(random_state=42) seeds every fit alike:
\* fitted on an X it was fitted on before, the forest returns the same scores.
DetectAnomalies ==
    /\ pc = "anomalies"
    /\ \E d \in DecisionScores(risk_features) :
           /\ \A m \in fitted : m[1] = FeatureMatrix(risk_features) => m[2] = d
           /\ fitted' = fitted \cup {<<FeatureMatrix(risk_features), d>>}
           /\ anomaly_scores' = Normalize(d)
    /\ pc' = "scores"
    /\ UNCHANGED <<wallet_data, transaction_df, wallet_metrics, risk_features,
                   composite_score, final_risk_score, scores, weights, runs,
                   raised, returned, reply>>

-----------------------------------------------------------------------------
(* RiskScoreCalculator *)

\* Weights with diversification at 0.10 instead of 0.05
WeightsDiversificationDoubled ==
    [liquidation_risk      |-> 25,
     behavioral_risk       |-> 15,
     financial_health      |-> 20,
     activity_pattern_risk |-> 10,
     repayment_behavior    |-> 15,
     experience            |-> 10,
     diversification       |-> 10]

\* self.weights as __init__ sets it, in hundredths
Weights ==
    [liquidation_risk      |-> 25,
     behavioral_risk       |-> 15,
     financial_health      |-> 20,
     activity_pattern_risk |-> 10,
     repayment_behavior    |-> 15,
     experience            |-> 10,
     diversification       |-> 5]

\* risk_components and positive_components: column -> weight
RiskComponents ==
    [liquidation_risk_score |-> weights.liquidation_risk,
     behavioral_risk_score  |-> weights.behavioral_risk,
     activity_pattern_risk  |-> weights.activity_pattern_risk]

PositiveComponents ==
    [financial_health_score   |-> weights.financial_health,
     repayment_behavior_score |-> weights.repayment_behavior,
     experience_score         |-> weights.experience,
     diversification_score    |-> weights.diversification]

RECURSIVE SumOver(_, _)
SumOver(S, f) ==
    IF S = {} THEN 0
    ELSE LET c == CHOOSE c \in S : TRUE IN f[c] + SumOver(S \ {c}, f)

\* CalculateCompositeScore with the positive components taken directly instead
\* of inverted
CompositeNotInverted(row) ==
    LET all == [c \in DOMAIN RiskComponents \cup DOMAIN PositiveComponents |->
                   IF c \in DOMAIN RiskComponents
                   THEN Scale(row[c], RiskComponents[c], 100)
                   ELSE Scale(row[c], PositiveComponents[c], 100)]
    IN Clip(SumOver(DOMAIN all, all), 0, Unit)

\* CalculateCompositeScore that leaves diversification out of the blend
CompositeWithoutDiversification(row) ==
    LET risk == [c \in DOMAIN RiskComponents |-> Scale(row[c], RiskComponents[c], 100)]
        pos  == [c \in DOMAIN PositiveComponents \ {"diversification_score"} |->
                    Scale(Unit - row[c], PositiveComponents[c], 100)]
    IN Clip(SumOver(DOMAIN risk, risk) + SumOver(DOMAIN pos, pos), 0, Unit)

\* _calculate_composite_score, for one row.  A sub-score of the model is never
\* NaN, so fillna(0) leaves it as it is.
CalculateCompositeScore(row) ==
    LET risk == [c \in DOMAIN RiskComponents |->
                    IF c \in DOMAIN row
                    THEN Scale(row[c], RiskComponents[c], 100) ELSE 0]
        pos  == [c \in DOMAIN PositiveComponents |->
                    IF c \in DOMAIN row
                    THEN Scale(Unit - row[c], PositiveComponents[c], 100) ELSE 0]
    IN Clip(SumOver(DOMAIN risk, risk) + SumOver(DOMAIN pos, pos), 0, Unit)

\* anomaly_adjustment = (1 - anomaly_scores) * 0.1, for a defined score
AnomalyAdjustment(a) == Scale(Unit - ToUnit(a), 1, 10)

\* FinalRiskScore without np.clip
FinalRiskScoreUnclipped(composite, a) ==
    IF IsNaN(a) THEN NaN ELSE Rat(composite - AnomalyAdjustment(a), Unit)

\* FinalRiskScore with the anomaly adjustment added instead of subtracted
FinalRiskScoreAdjustmentAdded(composite, a) ==
    IF IsNaN(a) THEN NaN
    ELSE Rat(Clip(composite + AnomalyAdjustment(a), 0, Unit), Unit)

\* final_risk_score = np.clip(composite_score - anomaly_adjustment, 0, 1),
\* as a float: NaN when the anomaly score is
FinalRiskScore(composite, a) ==
    IF IsNaN(a) THEN NaN
    ELSE Rat(Clip(composite - AnomalyAdjustment(a), 0, Unit), Unit)

\* credit_scores = (1 - final_risk_score) * 1000
CreditScore(final) == Rat((final[2] - final[1]) * 1000, final[2])

\* Series.round(0): to the nearest integer, a half to the even one
RoundHalfEven(r) ==
    LET q   == r[1] \div r[2]
        rem == r[1] % r[2]
    IN IF 2 * rem < r[2] THEN q
       ELSE IF 2 * rem > r[2] THEN q + 1
       ELSE IF q % 2 = 0 THEN q ELSE q + 1

\* _categorize_risk, for one credit score
CategorizeRisk(score) ==
    IF FGe(score, Rat(800, 1)) THEN "Low Risk"
    ELSE IF FGe(score, Rat(600, 1)) THEN "Medium-Low Risk"
    ELSE IF FGe(score, Rat(400, 1)) THEN "Medium Risk"
    ELSE IF FGe(score, Rat(200, 1)) THEN "High Risk"
    ELSE "Very High Risk"

\* risk_features.get(column, 0)
Get(row, column) == IF column \in DOMAIN row THEN row[column] ELSE 0

ScoreRow(row, composite, final, a) ==
    [wallet_id                    |-> row.wallet_address,
     score                        |-> RoundHalfEven(CreditScore(final)),
     risk_category                |-> CategorizeRisk(CreditScore(final)),
     liquidation_risk_component   |-> Get(row, "liquidation_risk_score"),
     behavioral_risk_component    |-> Get(row, "behavioral_risk_score"),
     financial_health_component   |-> Get(row, "financial_health_score"),
     repayment_behavior_component |-> Get(row, "repayment_behavior_score"),
     experience_component         |-> Get(row, "experience_score"),
     anomaly_score                |-> a,
     total_transactions           |-> Get(row, "total_transactions"),
     account_age_days             |-> Get(row, "account_age_days"),
     liquidation_count            |-> Get(row, "liquidation_count"),
     success_rate                 |-> Get(row, "success_rate")]

\* calculate_scores.  A NaN credit score makes .astype(int) raise before
\* self.scores is assigned.
CalculateScores ==
    /\ pc = "scores"
    /\ LET composite == [i \in DOMAIN risk_features |->
                            CalculateCompositeScore(risk_features[i])]
           final     == [i \in DOMAIN risk_features |->
                            FinalRiskScore(composite[i], anomaly_scores[i])]
       IN /\ composite_score' = composite
          /\ final_risk_score' = final
          /\ IF \E i \in DOMAIN final : IsNaN(final[i])
             THEN /\ raised' = "IntCastingNaNError"
                  /\ pc' = "raised"
                  /\ UNCHANGED <<scores, returned>>
             ELSE /\ scores' = Some([i \in DOMAIN risk_features |->
                                       ScoreRow(risk_features[i], composite[i],
                                                final[i], anomaly_scores[i])])
                  /\ returned' = scores'
                  /\ pc' = "done"
                  /\ UNCHANGED raised
    /\ UNCHANGED <<wallet_data, transaction_df, wallet_metrics, risk_features,
                   anomaly_scores, weights, fitted, runs, reply>>

-----------------------------------------------------------------------------
(* The run of main() on a fetched batch *)

Init ==
    /\ pc = "process"
    /\ wallet_data \in Batches
    /\ transaction_df = <<>>
    /\ wallet_metrics = <<>>
    /\ risk_features = <<>>
    /\ anomaly_scores = <<>>
    /\ composite_score = <<>>
    /\ final_risk_score = <<>>
    /\ scores = None
    /\ weights = Weights
    /\ fitted = {}
    /\ runs = <<>>
    /\ raised = ""
    /\ returned = None
    /\ reply = None

Next ==
    \/ ProcessWalletData
    \/ CalculateWalletMetrics
    \/ CalculateRiskFeatures
    \/ DetectAnomalies
    \/ CalculateScores

Spec == Init /\ [][Next]_vars

-----------------------------------------------------------------------------
(* The pipeline run again on the batch it has finished *)

\* What a finished run leaves: the table calculate_scores stored (None when
\* the run raised before) and the exception that ended it.
Outcome == [scores |-> scores, raised |-> raised]

\* The caller runs the five stages once more on the same batch: on the objects
\* of the run before, which keep their attributes, or on objects constructed
\* anew.  A new IsolationForest(random_state=42) is seeded as the old one was.
Rerun ==
    /\ pc \in {"done", "raised"}
    /\ Len(runs) + 1 < MaxRuns
    /\ runs' = Append(runs, Outcome)
    /\ pc' = "process"
    /\ raised' = ""
    /\ \E fresh \in BOOLEAN :
           IF fresh
           THEN /\ transaction_df' = <<>>
                /\ wallet_metrics' = <<>>
                /\ risk_features' = <<>>
                /\ anomaly_scores' = <<>>
                /\ composite_score' = <<>>
                /\ final_risk_score' = <<>>
                /\ scores' = None
                /\ weights' = Weights
           ELSE UNCHANGED <<transaction_df, wallet_metrics, risk_features,
                            anomaly_scores, composite_score, final_risk_score,
                            scores, weights>>
    /\ UNCHANGED <<wallet_data, fitted, reply>>
    /\ returned' = None

RerunNext ==
    \/ ProcessWalletData
    \/ CalculateWalletMetrics
    \/ CalculateRiskFeatures
    \/ DetectAnomalies
    \/ CalculateScores
    \/ Rerun

RerunSpec == Init /\ [][RerunNext]_vars

-----------------------------------------------------------------------------
(* CompoundDataFetcher.fetch_wallet_data, and main() up to the normalized
   table: on what the block explorer returned, or on a cache file *)

\* compound_v2_contracts and compound_v3_contracts
CompoundAddresses ==
    {"0x3d9819210a31b4961b30ef54be2aed79b9c9cd3b",
     "0x4ddc2d193948926d02f9b1fe9e1daa0718270ed5",
     "0x5d3a536e4d6dbd6114cc1ead35777bab948e3643",
     "0x39aa39c021dfbae8fac545936693ac917d5e7563",
     "0xc11b1268c1a384e55c48c2391d8d480264a3a7f4",
     "0xc3d688b66703497daa19211eedff47f25384cae7",
     "0xa17581a9e3356d9a858b789d68b4d866e593ae94"}

\* method_signatures
MethodSignatures ==
    ("0xa0712d68" :> "mint") @@ ("0x1249c58b" :> "mint")
    @@ ("0x6c540baf" :> "mint") @@ ("0xdb006a75" :> "redeem")
    @@ ("0x852a12e3" :> "redeemUnderlying") @@ ("0xc5ebeaec" :> "borrow")
    @@ ("0x0e752702" :> "repayBorrow") @@ ("0x4e4d9fea" :> "repayBorrow")
    @@ ("0x2608f818" :> "repayBorrowBehalf")
    @@ ("0x47ef3b3b" :> "liquidateBorrow")
    @@ ("0x317b0b77" :> "enterMarkets") @@ ("0xede4edd0" :> "exitMarket")

\* _classify_compound_action.  input_data stands for its first 10 characters,
\* the method signature: "" and "0x" are the only inputs shorter than that.
ClassifyCompoundAction(input_data, tx) ==
    IF input_data = "" \/ input_data = "0x" THEN "unknown"
    ELSE LET action == IF input_data \in DOMAIN MethodSignatures
                       THEN MethodSignatures[input_data] ELSE "unknown"
         IN IF action = "unknown"
            THEN (IF TxGet(tx, "value", 0) > 0 THEN "supply_eth" ELSE "interact")
            ELSE action

\* filter_compound_transactions: the transactions that involve a Compound
\* contract, each with its action label and the wallet's address
FilterCompoundTransactions(transactions, wallet_address) ==
    LET compound_txs ==
            SelectSeq(transactions,
                      LAMBDA tx : \/ TxGet(tx, "to", "") \in CompoundAddresses
                                  \/ TxGet(tx, "from", "") \in CompoundAddresses
                                  \/ TxGet(tx, "contractAddress", "")
                                         \in CompoundAddresses)
    IN [i \in DOMAIN compound_txs |->
           [compound_action |->
                ClassifyCompoundAction(TxGet(compound_txs[i], "input", ""),
                                       compound_txs[i]),
            wallet_address |-> wallet_address]
           @@ compound_txs[i]]

\* fetch_wallet_data on the transactions the explorer returned for a wallet
FetchWalletDataResult(wallet) ==
    LET compound_transactions ==
            FilterCompoundTransactions(wallet.transactions, wallet.address)
    IN [address           |-> wallet.address,
        transactions      |-> compound_transactions,
        total_tx_count    |-> Len(wallet.transactions),
        compound_tx_count |-> Len(compound_transactions)]

\* fetch_multiple_wallets: wallet_data holds what the explorer returned and
\* becomes the batch main() hands to process_wallet_data
FetchMultipleWallets ==
    /\ pc = "fetch"
    /\ wallet_data' = [k \in DOMAIN wallet_data |->
                          FetchWalletDataResult(wallet_data[k])]
    /\ pc' = "process"
    /\ UNCHANGED <<transaction_df, wallet_metrics, risk_features, anomaly_scores,
                   composite_score, final_risk_score, scores, weights, fitted, runs,
                   raised, returned, reply>>

\* the fields of a transaction other than its call: all there, or none
OtherFields ==
    { [hash |-> "t1", timeStamp |-> Day, isError |-> 1, gasUsed |-> 2,
       gasPrice |-> 3],
      [k \in {} |-> 0] }

\* method signatures of calls: none, the bare prefix, three of the table and
\* one outside it
InputData == {"", "0x", "0xa0712d68", "0x2608f818", "0x317b0b77", "0xabcdef12"}

\* transactions as the explorer returns them
ExplorerTxs ==
    { [to |-> "0x4ddc2d193948926d02f9b1fe9e1daa0718270ed5",
       input |-> i, value |-> v] @@ o :
          i \in InputData, v \in {0, 1}, o \in OtherFields }
    \cup { [to |-> "0x4ddc2d193948926d02f9b1fe9e1daa0718270ed5", value |-> 1],
           [input |-> "0xa0712d68", value |-> 0],
           [to |-> "0x00000000000000000000000000000000000000ff",
            input |-> "0xa0712d68", value |-> 0] }

\* a transaction of a cache file with every key the normalizer reads
CachedTx ==
    [hash |-> "t1", timeStamp |-> Day, compound_action |-> "mint",
     isError |-> 1, gasUsed |-> 2, gasPrice |-> 3]

\* CachedTx with one key missing, with every key missing, and whole
CachedTxs ==
    { [k \in DOMAIN CachedTx \ drop |-> CachedTx[k]] :
          drop \in {{}} \cup {{k} : k \in DOMAIN CachedTx} \cup {DOMAIN CachedTx} }

\* the lists of at most n members of S
RECURSIVE ListsUpTo(_, _)
ListsUpTo(S, n) ==
    IF n = 0 THEN {<<>>}
    ELSE {<<>>} \cup {<<x>> \o l : x \in S, l \in ListsUpTo(S, n - 1)}

\* main() with --use-cache reads wallet_data from the cache file and skips
\* the fetch; otherwise it fetches.
FetchInit ==
    /\ \/ /\ pc = "fetch"
          /\ wallet_data \in
                 {<<[address |-> Addresses[1], transactions |-> txs]>> :
                      txs \in ListsUpTo(ExplorerTxs, MaxFetched)}
       \/ /\ pc = "process"
          /\ wallet_data \in
                 {<<[address |-> Addresses[1], transactions |-> txs]>> :
                      txs \in ListsUpTo(CachedTxs, MaxFetched)}
                 \cup {<<[address |-> Addresses[1]]>>}
    /\ transaction_df = <<>>
    /\ wallet_metrics = <<>>
    /\ risk_features = <<>>
    /\ anomaly_scores = <<>>
    /\ composite_score = <<>>
    /\ final_risk_score = <<>>
    /\ scores = None
    /\ weights = Weights
    /\ fitted = {}
    /\ runs = <<>>
    /\ raised = ""
    /\ returned = None
    /\ reply = None

FetchNext ==
    \/ FetchMultipleWallets
    \/ ProcessWalletData

FetchSpec == FetchInit /\ [][FetchNext]_vars

-----------------------------------------------------------------------------
(* calculate_scores on its own: any feature rows, any anomaly series *)

\* x thousandths of 1.0
Milli(x) == Scale(Unit, x, 1000)

\* the values a sub-score column takes, in thousandths
GridValues(c) ==
    IF c = "diversification_score" THEN {0, 995, 1000} ELSE {0, 1000}

FeatureRows(address) ==
    {[wallet_address |-> address] @@ [c \in SubScores |-> Milli(v[c])] :
        v \in {g \in [SubScores -> {0, 995, 1000}] :
                  \A c \in SubScores : g[c] \in GridValues(c)}}

\* row with one sub-score column set to another value of its grid
Variants(row, address) ==
    {[row EXCEPT !.wallet_address = address]}
    \cup {[row EXCEPT !.wallet_address = address, ![c] = Milli(x)] :
             c \in SubScores, x \in {0, 995, 1000}}

\* feature tables of one wallet, and of two wallets whose rows differ in at
\* most one sub-score
FeatureTables ==
    {<<r>> : r \in FeatureRows(Addresses[1])}
    \cup UNION { {<<r, q>> : q \in {v \in Variants(r, Addresses[2]) :
                                      \A c \in SubScores :
                                          \E x \in GridValues(c) : v[c] = Milli(x)}} :
                 r \in FeatureRows(Addresses[1]) }

\* an anomaly series as detect_anomalies returns it: every value NaN, or every
\* value a number in [0, 1]
AnomalySeries(n) ==
    {[i \in 1..n |-> NaN]} \cup [1..n -> {Rat(0, 1), Rat(1, 2), Rat(1, 1)}]

CalcInit ==
    /\ pc = "scores"
    /\ wallet_data = <<>>
    /\ transaction_df = <<>>
    /\ wallet_metrics = <<>>
    /\ risk_features \in FeatureTables
    /\ anomaly_scores \in AnomalySeries(Len(risk_features))
    /\ composite_score = <<>>
    /\ final_risk_score = <<>>
    /\ scores = None
    /\ weights = Weights
    /\ fitted = {}
    /\ runs = <<>>
    /\ raised = ""
    /\ returned = None
    /\ reply = None

CalcNext == CalculateScores

CalcSpec == CalcInit /\ [][CalcNext]_vars

-----------------------------------------------------------------------------
(* calculate_risk_features on its own: a WalletMetrics table with one row for
   every wallet of a batch, the wallets without transactions included *)

\* _calculate_single_wallet_metrics for each wallet of the batch, in address
\* order, on the wallet's rows of the normalized table
MetricsOfEveryWallet(wd) ==
    LET df   == ProcessWalletDataResult(wd)
        keys == SelectSeq(Addresses,
                          LAMBDA a : \E k \in DOMAIN wd : wd[k].address = a)
    IN [g \in DOMAIN keys |->
           CalculateSingleWalletMetrics(
               keys[g], SelectSeq(df, LAMBDA r : r.wallet_address = keys[g]))]

\* the raw record with hash h
Tx(h) == CHOOSE t \in RawTxs : t.hash = h

\* A batch beyond MaxTxs: a wallet that borrowed 5 times and repaid 4 times,
\* next to a wallet that minted once and repaid once without ever borrowing.
LargeBatches ==
    { << [address |-> "0xa",
          transactions |-> <<Tx("t1"), Tx("t3"), Tx("t3"), Tx("t3"), Tx("t3"),
                             Tx("t3"), Tx("t2"), Tx("t2"), Tx("t2"), Tx("t2")>>],
         [address |-> "0xb",
          transactions |-> <<Tx("t1"), Tx("t2")>>] >> }

FeatureInit ==
    /\ pc = "features"
    /\ wallet_data = <<>>
    /\ transaction_df = <<>>
    /\ wallet_metrics \in
           {MetricsOfEveryWallet(wd) : wd \in Batches \cup LargeBatches}
    /\ risk_features = <<>>
    /\ anomaly_scores = <<>>
    /\ composite_score = <<>>
    /\ final_risk_score = <<>>
    /\ scores = None
    /\ weights = Weights
    /\ fitted = {}
    /\ runs = <<>>
    /\ raised = ""
    /\ returned = None
    /\ reply = None

FeatureNext == CalculateRiskFeatures

FeatureSpec == FeatureInit /\ [][FeatureNext]_vars

-----------------------------------------------------------------------------
(* RiskScoreCalculator.get_score_distribution and explain_score *)

\* what a query leaves: the exception it raised, or the value it returned
Raise(op, arg, exception) ==
    [op |-> op, arg |-> arg, raised |-> exception, value |-> None]
Return(op, arg, value) == [op |-> op, arg |-> arg, raised |-> "", value |-> value]

\* the keys of score_ranges
ScoreRangeLabels ==
    <<"0-100", "100-200", "200-300", "300-400", "400-500", "500-600",
      "600-700", "700-800", "800-900", "900-1000">>

\* score_ranges whose last bucket is open above like the others
ScoreRangesLastOpen(table) ==
    [k \in DOMAIN ScoreRangeLabels |->
        Cardinality({i \in DOMAIN table :
                        /\ table[i].score >= 100 * (k - 1)
                        /\ table[i].score < 100 * k})]

\* score_ranges, by position of the key: len(scores[(scores >= lo) &
\* (scores < hi)]), the last with (scores <= 1000)
ScoreRanges(table) ==
    [k \in DOMAIN ScoreRangeLabels |->
        Cardinality({i \in DOMAIN table :
                        /\ table[i].score >= 100 * (k - 1)
                        /\ IF k = 10 THEN table[i].score <= 1000
                                     ELSE table[i].score < 100 * k})]

\* Series.value_counts().to_dict(): the count of each value that occurs
ValueCounts(xs) ==
    [v \in Range(xs) |-> Cardinality({i \in DOMAIN xs : xs[i] = v})]

\* the k-th smallest of a list of integers
KthSmallest(xs, k) ==
    CHOOSE v \in Range(xs) :
        /\ Cardinality({i \in DOMAIN xs : xs[i] < v}) < k
        /\ Cardinality({i \in DOMAIN xs : xs[i] <= v}) >= k

\* Series.median(): the middle value, or the mean of the two middle values
Median(xs) ==
    LET n == Len(xs)
    IN IF n = 0 THEN NaN
       ELSE IF n % 2 = 1 THEN Rat(KthSmallest(xs, (n + 1) \div 2), 1)
       ELSE Rat(KthSmallest(xs, n \div 2) + KthSmallest(xs, n \div 2 + 1), 2)

\* the dictionary get_score_distribution builds; std_score is held as its
\* square, NaN for a single wallet
Distribution(table) ==
    LET xs == Col(table, "score")
    IN [total_wallets   |-> Len(xs),
        mean_score      |-> Rat(SumSeq(xs), Len(xs)),
        median_score    |-> Median(xs),
        std_score       |-> SeriesVar(xs),
        min_score       |-> SeqMin(xs),
        max_score       |-> SeqMax(xs),
        score_ranges    |-> ScoreRanges(table),
        risk_categories |-> ValueCounts(Col(table, "risk_category"))]

\* get_score_distribution.  Without rows scores.min() is NaN and int() of it
\* raises ValueError.
GetScoreDistribution ==
    /\ pc \in {"scores", "done", "raised"}
    /\ reply' = IF scores = None \/ Len(scores[1]) = 0
                THEN Raise("get_score_distribution", "", "ValueError")
                ELSE Return("get_score_distribution", "", Distribution(scores[1]))
    /\ UNCHANGED <<pc, wallet_data, transaction_df, wallet_metrics, risk_features,
                   anomaly_scores, composite_score, final_risk_score, scores,
                   weights, fitted, runs, raised, returned>>

\* the wallet addresses a caller asks about
QueryAddresses == {"0xa", "0xB", "0xb", "0xc"}

\* str.lower() on the addresses of the model
Lower(address) == IF address = "0xB" THEN "0xb" ELSE address

\* int(x) of a float: the fraction is cut off
IntOf(x) == x[1] \div x[2]

\* the interpretation explain_score attaches to a score
Interpretation(score) ==
    IF score >= 800 THEN "Excellent risk profile with strong track record"
    ELSE IF score >= 600 THEN "Good risk profile with minor concerns"
    ELSE IF score >= 400 THEN "Moderate risk with careful monitoring needed"
    ELSE IF score >= 200 THEN "High risk requiring strict oversight"
    ELSE "Very high risk, consider limiting exposure"

\* the dictionary explain_score builds from the row it found
Explanation(wallet_address, row) ==
    [wallet_id      |-> wallet_address,
     score          |-> row.score,
     risk_category  |-> row.risk_category,
     risk_factors   |->
         [liquidation_risk   |-> row.liquidation_risk_component,
          behavioral_risk    |-> row.behavioral_risk_component,
          financial_health   |-> row.financial_health_component,
          repayment_behavior |-> row.repayment_behavior_component,
          experience_level   |-> row.experience_component,
          anomaly_score      |-> row.anomaly_score],
     wallet_metrics |->
         [total_transactions |-> row.total_transactions,
          account_age_days   |-> IntOf(row.account_age_days),
          liquidation_count  |-> row.liquidation_count,
          success_rate       |-> row.success_rate],
     interpretation |-> Interpretation(row.score)]

\* explain_score: the rows whose wallet_id equals the lower-cased argument,
\* and of these the first
ExplainScore ==
    /\ pc \in {"scores", "done", "raised"}
    /\ \E wallet_address \in QueryAddresses :
           reply' =
               IF scores = None
               THEN Raise("explain_score", wallet_address, "ValueError")
               ELSE LET found == SelectSeq(scores[1],
                                     LAMBDA r : r.wallet_id = Lower(wallet_address))
                    IN IF Len(found) = 0
                       THEN Raise("explain_score", wallet_address, "ValueError")
                       ELSE Return("explain_score", wallet_address,
                                   Explanation(wallet_address, found[1]))
    /\ UNCHANGED <<pc, wallet_data, transaction_df, wallet_metrics, risk_features,
                   anomaly_scores, composite_score, final_risk_score, scores,
                   weights, fitted, runs, raised, returned>>

\* calculate_scores followed by get_score_distribution, as main() calls them,
\* on any feature rows and any anomaly series
DistributionNext == CalculateScores \/ GetScoreDistribution

DistributionSpec == CalcInit /\ [][DistributionNext]_vars

-----------------------------------------------------------------------------
(* One RiskScoreCalculator under any sequence of calls *)

\* a feature row whose sub-scores all are x thousandths
QueryRow(address, x) ==
    [wallet_address |-> address] @@ [c \in SubScores |-> Milli(x)]
    @@ [total_transactions |-> 3, account_age_days |-> Rat(3, 2),
        liquidation_count |-> 1, success_rate |-> Rat(2, 3)]

\* feature tables of one and of two wallets; process_wallet_data keeps an
\* address as the batch spells it, so 0xB and 0xb are two wallets
QueryTables ==
    {<<QueryRow("0xa", 0)>>, <<QueryRow("0xB", 1000)>>,
     <<QueryRow("0xa", 0), QueryRow("0xB", 1000)>>,
     <<QueryRow("0xB", 0), QueryRow("0xb", 1000)>>, <<QueryRow("0xb", 0)>>}

\* anomaly series: every value NaN, or every value the same number
QueryAnomalies(n) ==
    {[i \in 1..n |-> a] : a \in {NaN, Rat(1, 2), Rat(1, 1)}}

\* the caller turns to calculate_scores again, with new arguments
CallCalculateScores ==
    /\ pc \in {"done", "raised"}
    /\ risk_features' \in QueryTables
    /\ anomaly_scores' \in QueryAnomalies(Len(risk_features'))
    /\ composite_score' = <<>>
    /\ final_risk_score' = <<>>
    /\ raised' = ""
    /\ pc' = "scores"
    /\ UNCHANGED <<wallet_data, transaction_df, wallet_metrics, scores, weights,
                   fitted, runs, returned, reply>>

QueryInit ==
    /\ pc = "scores"
    /\ wallet_data = <<>>
    /\ transaction_df = <<>>
    /\ wallet_metrics = <<>>
    /\ risk_features \in QueryTables
    /\ anomaly_scores \in QueryAnomalies(Len(risk_features))
    /\ composite_score = <<>>
    /\ final_risk_score = <<>>
    /\ scores = None
    /\ weights = Weights
    /\ fitted = {}
    /\ runs = <<>>
    /\ raised = ""
    /\ returned = None
    /\ reply = None

QueryNext ==
    \/ CalculateScores
    \/ CallCalculateScores
    \/ GetScoreDistribution
    \/ ExplainScore

QuerySpec == QueryInit /\ [][QueryNext]_vars

-----------------------------------------------------------------------------
(* The metrics of wallets with up to MaxActions transactions each *)

\* the labels of the fetch that the aggregator counts, and two it does not
CountedActions ==
    <<"mint", "redeem", "redeemUnderlying", "borrow", "repayBorrow",
      "liquidateBorrow">>
Labels == CountedActions \o <<"interact", "repayBorrowBehalf">>

\* one transaction of the k-th label; those of repayBorrowBehalf and borrow
\* failed
LabelTx(k) ==
    [hash |-> Labels[k], timeStamp |-> k * Hour, compound_action |-> Labels[k],
     isError |-> IF Labels[k] \in {"repayBorrowBehalf", "borrow"} THEN 1 ELSE 0,
     gasUsed |-> 1, gasPrice |-> 1]

\* how many transactions of each label a wallet has: at most budget in all
RECURSIVE LabelCounts(_, _)
LabelCounts(k, budget) ==
    IF k = 0 THEN {<<>>}
    ELSE UNION { {Append(rest, n) : rest \in LabelCounts(k - 1, budget - n)} :
                 n \in 0..budget }

RECURSIVE Repeat(_, _)
Repeat(x, n) == IF n = 0 THEN <<>> ELSE <<x>> \o Repeat(x, n - 1)

RECURSIVE LabelTxs(_, _)
LabelTxs(counts, k) ==
    IF k = 0 THEN <<>>
    ELSE LabelTxs(counts, k - 1) \o Repeat(LabelTx(k), counts[k])

\* a wallet 0xa with the counted transactions, alone or after a wallet 0xb
\* that has one transaction of a label that is not counted
LabelBatches ==
    UNION { { <<[address |-> "0xa", transactions |-> LabelTxs(c, Len(Labels))]>>,
              <<[address |-> "0xb", transactions |-> <<LabelTx(7)>>],
                [address |-> "0xa", transactions |-> LabelTxs(c, Len(Labels))]>> } :
            c \in LabelCounts(Len(Labels), MaxActions) }

MetricsInit ==
    /\ pc = "metrics"
    /\ wallet_data \in LabelBatches
    /\ transaction_df = ProcessWalletDataResult(wallet_data)
    /\ wallet_metrics = <<>>
    /\ risk_features = <<>>
    /\ anomaly_scores = <<>>
    /\ composite_score = <<>>
    /\ final_risk_score = <<>>
    /\ scores = None
    /\ weights = Weights
    /\ fitted = {}
    /\ runs = <<>>
    /\ raised = ""
    /\ returned = None
    /\ reply = None

MetricsNext == CalculateWalletMetrics

MetricsSpec == MetricsInit /\ [][MetricsNext]_vars

-----------------------------------------------------------------------------
(* Properties *)

AfterMetrics == pc \notin {"process", "metrics"}
ScoreTable == scores[1]
Zero == Rat(0, 1)
One == Rat(1, 1)

\* the band of an integer score
Band(score) ==
    IF score >= 800 THEN "Low Risk"
    ELSE IF score >= 600 THEN "Medium-Low Risk"
    ELSE IF score >= 400 THEN "Medium Risk"
    ELSE IF score >= 200 THEN "High Risk"
    ELSE "Very High Risk"

\* C1: every row calculate_scores stores has an integer score in 0..1000.
C1_ScoreRange ==
    scores # None =>
        \A i \in DOMAIN ScoreTable : ScoreTable[i].score \in 0..1000

\* C1 witness: a stored score of 1000 whose final risk was clamped up to 0.
C1_Witness ==
    /\ pc = "done"
    /\ \E i \in DOMAIN ScoreTable :
           /\ ScoreTable[i].score = 1000
           /\ composite_score[i] < AnomalyAdjustment(anomaly_scores[i])

\* C2: in every stored row the risk_category is the band of the row's integer
\* score, each band closed at its lower edge.
C2_CategoryIsBandOfScore ==
    scores # None =>
        \A i \in DOMAIN ScoreTable :
            ScoreTable[i].risk_category = Band(ScoreTable[i].score)

\* C3: of two wallets with the same composite risk, the one with the lower
\* anomaly score has no lower final risk and no higher credit score.
C3_LessNormalIsRiskier ==
    pc = "done" =>
        \A i, j \in DOMAIN ScoreTable :
            (composite_score[i] = composite_score[j]
             /\ FLt(anomaly_scores[i], anomaly_scores[j]))
            => /\ RLe(final_risk_score[j], final_risk_score[i])
               /\ ScoreTable[i].score <= ScoreTable[j].score

\* C4: a wallet of the batch with no transaction has a WalletMetrics row with
\* total_transactions = 0 and a defined success_rate, has a FinalScore row,
\* and no stage raises.
C4_ZeroActivityWalletScored ==
    \A k \in DOMAIN wallet_data :
        wallet_data[k].transactions = <<>> =>
            /\ raised = ""
            /\ AfterMetrics =>
                   \E i \in DOMAIN wallet_metrics :
                       /\ wallet_metrics[i].wallet_address = wallet_data[k].address
                       /\ wallet_metrics[i].total_transactions = 0
                       /\ ~IsNaN(wallet_metrics[i].success_rate)
            /\ pc = "done" =>
                   \E i \in DOMAIN ScoreTable :
                       ScoreTable[i].wallet_id = wallet_data[k].address

\* C5: on a batch without any transaction every stage returns an empty
\* result and none raises.
C5_EmptyBatchRunsThrough ==
    (\A k \in DOMAIN wallet_data : wallet_data[k].transactions = <<>>) =>
        /\ raised = ""
        /\ transaction_df = <<>>
        /\ wallet_metrics = <<>>
        /\ risk_features = <<>>
        /\ anomaly_scores = <<>>
        /\ scores # None => ScoreTable = <<>>

\* C6: every anomaly score detect_anomalies returns is a defined number in
\* [0, 1], also when all raw decision scores are equal, and calculate_scores
\* never meets an undefined value.
C6_AnomalyScoresDefined ==
    /\ \A i \in DOMAIN anomaly_scores :
           /\ ~IsNaN(anomaly_scores[i])
           /\ RLe(Zero, anomaly_scores[i])
           /\ RLe(anomaly_scores[i], One)
    /\ raised # "IntCastingNaNError"

\* C7: each of the 8 sub-scores of every RiskFeatures row lies in [0, 1].
C7_SubScoresInUnitInterval ==
    \A i \in DOMAIN risk_features :
        \A c \in SubScores :
            risk_features[i][c] >= 0 /\ risk_features[i][c] <= Unit

\* C7 witness: the features of a table that holds an all-zero row and a
\* wallet liquidated twice, whose unclipped liquidation score passes 1.0 and
\* whose liquidation_risk_score is 1.0.
C7_Witness ==
    \E i, j \in DOMAIN risk_features :
        /\ risk_features[i].total_transactions = 0
        /\ risk_features[i].action_diversity = 0
        /\ risk_features[j].liquidation_count >= 2
        /\ risk_features[j].liquidation_risk_score = Unit

\* C8: in every WalletMetrics row successful + failed = total and
\* 0 <= success_rate <= 1.
C8_CountsPartitionTotal ==
    \A i \in DOMAIN wallet_metrics :
        /\ wallet_metrics[i].successful_transactions
             + wallet_metrics[i].failed_transactions
           = wallet_metrics[i].total_transactions
        /\ RLe(Zero, wallet_metrics[i].success_rate)
        /\ RLe(wallet_metrics[i].success_rate, One)

\* rows i and j differ in sub-score c and in no other sub-score, have the
\* same anomaly score, and np.clip leaves both final risks as they are
DifferOnlyIn(c, i, j) ==
    /\ risk_features[i][c] # risk_features[j][c]
    /\ \A o \in SubScores \ {c} : risk_features[i][o] = risk_features[j][o]
    /\ anomaly_scores[i] = anomaly_scores[j]
    /\ \A k \in {i, j} :
           composite_score[k] - AnomalyAdjustment(anomaly_scores[k]) \in 0..Unit

\* the 7 columns the composite score weighs
WeightedSubScores == DOMAIN RiskComponents \cup DOMAIN PositiveComponents

\* C9 as claimed: a change of any one of the 8 sub-scores alone changes the
\* final risk.
C9_EverySubScoreWeighs ==
    pc = "done" =>
        \A i, j \in DOMAIN risk_features :
            \A c \in SubScores :
                DifferOnlyIn(c, i, j) => final_risk_score[i] # final_risk_score[j]

\* C9 amended: a change of any one of the 7 weighted sub-scores alone changes
\* the final risk; a change of bot_behavior alone leaves it as it is.
C9_SevenSubScoresWeigh ==
    pc = "done" =>
        \A i, j \in DOMAIN risk_features :
            /\ \A c \in WeightedSubScores :
                   DifferOnlyIn(c, i, j) => final_risk_score[i] # final_risk_score[j]
            /\ DifferOnlyIn("bot_behavior_score", i, j)
                   => final_risk_score[i] = final_risk_score[j]

\* C9 witness: two scored rows that differ in one weighted sub-score alone,
\* no clamp active, and have different final risks.
C9_Witness ==
    /\ pc = "done"
    /\ \E i, j \in DOMAIN risk_features :
           \E c \in WeightedSubScores :
               /\ DifferOnlyIn(c, i, j)
               /\ final_risk_score[i] # final_risk_score[j]

\* the blend of C10, on hundredths
Blend(row) ==
    (25 * row.liquidation_risk_score
     + 15 * row.behavioral_risk_score
     + 10 * row.activity_pattern_risk
     + 20 * (Unit - row.financial_health_score)
     + 15 * (Unit - row.repayment_behavior_score)
     + 10 * (Unit - row.experience_score)
     + 5 * (Unit - row.diversification_score)) \div 100

\* C10: the composite risk calculate_scores computes is
\* clip(0.25 liq + 0.15 beh + 0.10 act + 0.20 (1 - fin) + 0.15 (1 - rep)
\*      + 0.10 (1 - exp) + 0.05 (1 - div), 0, 1).
C10_CompositeIsBlend ==
    \A i \in DOMAIN composite_score :
        composite_score[i] = Clip(Blend(risk_features[i]), 0, Unit)

\* C10 witness: a composite strictly between 0 and 1 of a row with a risk
\* sub-score and a health sub-score both above 0.
C10_Witness ==
    \E i \in DOMAIN composite_score :
        /\ composite_score[i] > 0 /\ composite_score[i] < Unit
        /\ risk_features[i].liquidation_risk_score > 0
        /\ risk_features[i].financial_health_score > 0
        /\ risk_features[i].diversification_score \notin {0, Unit}

\* C11: the seven weights are 0.25, 0.15, 0.20, 0.10, 0.15, 0.10 and 0.05, sum
\* to exactly 1.0, and stay what they are through every operation.
C11_WeightsSumToOne ==
    /\ weights = [liquidation_risk      |-> 25,
                  behavioral_risk       |-> 15,
                  financial_health      |-> 20,
                  activity_pattern_risk |-> 10,
                  repayment_behavior    |-> 15,
                  experience            |-> 10,
                  diversification       |-> 5]
    /\ SumOver(DOMAIN weights, weights) = 100

\* C11 witness: calculate_scores has stored a table of two rows and the
\* weights still sum to 1.0.
C11_Witness ==
    /\ pc = "done"
    /\ scores # None
    /\ Len(ScoreTable) = 2
    /\ SumOver(DOMAIN weights, weights) = 100

\* composite - (1 - anomaly_score) * 0.1 of row i, in units
AdjustedRisk(i) ==
    composite_score[i] - (Unit - ToUnit(anomaly_scores[i])) \div 10

C13_RerunYieldsSameScores ==
    pc \in {"done", "raised"} =>
        \A k \in DOMAIN runs : runs[k] = Outcome

\* C13 witness: a second run has stored the scores of two wallets that the
\* forest told apart.
C13_Witness ==
    /\ pc = "done"
    /\ Len(runs) = 1
    /\ runs[1].scores # None
    /\ Len(ScoreTable) = 2
    /\ anomaly_scores[1] # anomaly_scores[2]

\* C14: repayment_behavior is 0.5 for ratio >= 1.0, plus 0.3 for
\* 0.8 <= ratio < 1.0, plus 0.2 for borrow_count = 0, plus 0.3 for
\* liquidation_count = 0, clamped to [0, 1], every bucket that applies counted;
\* a wallet that never borrowed, repaid at least once and was never liquidated
\* scores 1.0.
C14_RepaymentBucketsAdd ==
    \A i \in DOMAIN risk_features :
        LET row    == risk_features[i]
            ratio  == row.repay_to_borrow_ratio
            tenths == (IF ratio[1] >= ratio[2] THEN 5 ELSE 0)
                      + (IF 10 * ratio[1] >= 8 * ratio[2] /\ ratio[1] < ratio[2]
                         THEN 3 ELSE 0)
                      + (IF row.borrow_count = 0 THEN 2 ELSE 0)
                      + (IF row.liquidation_count = 0 THEN 3 ELSE 0)
        IN /\ 10 * row.repayment_behavior_score
                = Unit * (IF tenths > 10 THEN 10 ELSE tenths)
           /\ (/\ row.borrow_count = 0
               /\ row.repayBorrow_count >= 1
               /\ row.liquidation_count = 0) => row.repayment_behavior_score = Unit

\* C14 witness: the features of a wallet with a mint at 0 and a repayBorrow at
\* 86400, which scores 1.0, next to a wallet with ratio 0.8, which scores 0.6.
C14_Witness ==
    \E i, j \in DOMAIN risk_features :
        /\ risk_features[i].total_transactions = 2
        /\ risk_features[i].mint_count = 1
        /\ risk_features[i].repayBorrow_count = 1
        /\ risk_features[i].first_tx_date = 0
        /\ risk_features[i].last_tx_date = Day
        /\ risk_features[i].repayment_behavior_score = Unit
        /\ risk_features[j].repay_to_borrow_ratio = Rat(4, 5)
        /\ 10 * risk_features[j].repayment_behavior_score = 6 * Unit

\* the hashes of the members of a list of rows or raw records, in list order
TxHashes(rows) ==
    [i \in DOMAIN rows |->
        IF "tx_hash" \in DOMAIN rows[i] THEN rows[i].tx_hash ELSE rows[i].hash]

\* C15: the table process_wallet_data returns is in ascending order of
\* (wallet address, timestamp), and the rows of one wallet with one timestamp
\* stand in the order the wallet's transaction list had them in.
C15_SortedByWalletThenTimeStable ==
    pc # "process" =>
        /\ \A i, j \in DOMAIN transaction_df :
               i < j =>
                   \/ AddrRank(transaction_df[i].wallet_address)
                        < AddrRank(transaction_df[j].wallet_address)
                   \/ /\ transaction_df[i].wallet_address
                            = transaction_df[j].wallet_address
                      /\ transaction_df[i].timestamp <= transaction_df[j].timestamp
        /\ \A k \in DOMAIN wallet_data :
               \A t \in {tx.timeStamp : tx \in RawTxs} :
                   TxHashes(SelectSeq(transaction_df,
                                      LAMBDA r : /\ r.wallet_address
                                                     = wallet_data[k].address
                                                 /\ r.timestamp = t))
                   = TxHashes(SelectSeq(wallet_data[k].transactions,
                                        LAMBDA tx : tx.timeStamp = t))

\* C15 witness: the table of a wallet whose list holds a later transaction
\* first and then two different transactions of one timestamp.
C15_Witness ==
    /\ pc # "process"
    /\ \E k \in DOMAIN wallet_data :
           LET txs == wallet_data[k].transactions
           IN /\ Len(txs) = 3
              /\ txs[1].timeStamp > txs[2].timeStamp
              /\ txs[2].timeStamp = txs[3].timeStamp
              /\ txs[2].hash # txs[3].hash
              /\ TxHashes(transaction_df) = <<txs[2].hash, txs[3].hash, txs[1].hash>>

\* the fixed action taxonomy
Taxonomy ==
    {"mint", "redeem", "redeemUnderlying", "borrow", "repayBorrow",
     "liquidateBorrow", "unknown"}

\* C16: a fetched transaction whose method signature is not one of the table
\* carries the label unknown, and every label of the normalized table is one
\* of the taxonomy.
C16_LabelsWithinTaxonomy ==
    /\ pc # "fetch" =>
           \A k \in DOMAIN wallet_data :
               \A i \in DOMAIN WalletTransactions(wallet_data[k]) :
                   LET tx == WalletTransactions(wallet_data[k])[i]
                   IN ("input" \in DOMAIN tx /\ tx.input \notin DOMAIN MethodSignatures)
                          => tx.compound_action = "unknown"
    /\ \A i \in DOMAIN transaction_df :
           transaction_df[i].compound_action \in Taxonomy

\* the column of the result table that carries a sub-score column
ComponentColumn ==
    [liquidation_risk_score   |-> "liquidation_risk_component",
     behavioral_risk_score    |-> "behavioral_risk_component",
     financial_health_score   |-> "financial_health_component",
     activity_pattern_risk    |-> "activity_pattern_risk_component",
     repayment_behavior_score |-> "repayment_behavior_component",
     experience_score         |-> "experience_component",
     diversification_score    |-> "diversification_component",
     bot_behavior_score       |-> "bot_behavior_component"]

\* C17: the stored table has one row per RiskFeatures row, and the row of a
\* wallet carries that wallet's id, its anomaly score and each of its 8
\* sub-scores, all unchanged.
C17_RowCarriesEverySubScore ==
    pc = "done" =>
        /\ Len(ScoreTable) = Len(risk_features)
        /\ \A i \in DOMAIN ScoreTable :
               /\ ScoreTable[i].wallet_id = risk_features[i].wallet_address
               /\ ScoreTable[i].anomaly_score = anomaly_scores[i]
               /\ \A c \in SubScores :
                      /\ ComponentColumn[c] \in DOMAIN ScoreTable[i]
                      /\ ScoreTable[i][ComponentColumn[c]] = risk_features[i][c]

\* the row expected of a raw transaction: a value of the record where the
\* key is there, else 0 for a number, "" for the hash and label for the
\* action
ExpectedRow(address, tx, label) ==
    [wallet_address  |-> address,
     tx_hash         |-> IF "hash" \in DOMAIN tx THEN tx.hash ELSE "",
     timestamp       |-> IF "timeStamp" \in DOMAIN tx THEN tx.timeStamp ELSE 0,
     tx_fee          |-> (IF "gasUsed" \in DOMAIN tx THEN tx.gasUsed ELSE 0)
                         * (IF "gasPrice" \in DOMAIN tx THEN tx.gasPrice ELSE 0),
     compound_action |-> IF "compound_action" \in DOMAIN tx
                         THEN tx.compound_action ELSE label,
     is_error        |-> IF "isError" \in DOMAIN tx THEN tx.isError ELSE 0]

\* process_wallet_data has returned without raising, with as many rows as the
\* batch has raw transactions, and every expected row stands in the table as
\* often as the batch has transactions it is expected of
NormalizedWithDefaults(label) ==
    pc = "metrics" =>
        /\ raised = ""
        /\ Len(transaction_df)
             = SumSeq([k \in DOMAIN wallet_data |->
                          Len(WalletTransactions(wallet_data[k]))])
        /\ \A k \in DOMAIN wallet_data :
               LET txs  == WalletTransactions(wallet_data[k])
                   addr == wallet_data[k].address
               IN \A i \in DOMAIN txs :
                      LET e == ExpectedRow(addr, txs[i], label)
                      IN Cardinality({j \in DOMAIN transaction_df :
                                         [f \in DOMAIN e |-> transaction_df[j][f]] = e})
                         = Cardinality({j \in DOMAIN txs :
                                           ExpectedRow(addr, txs[j], label) = e})

C19_SingleTransactionTimingZero ==
    \A i \in DOMAIN wallet_metrics :
        wallet_metrics[i].total_transactions = 1 =>
            \A m \in {"account_age_days", "avg_tx_interval_days",
                       "avg_time_between_txs", "std_time_between_txs",
                       "activity_regularity", "daily_activity_variance"} :
                wallet_metrics[i][m] = <<0, 1>>

\* C19 witness: the metrics of a wallet whose one transaction is later than
\* the epoch, next to a wallet of two transactions a day apart.
C19_Witness ==
    \E i, j \in DOMAIN wallet_metrics :
        /\ wallet_metrics[i].total_transactions = 1
        /\ wallet_metrics[i].first_tx_date > 0
        /\ wallet_metrics[j].total_transactions = 2
        /\ wallet_metrics[j].account_age_days = <<1, 1>>

\* C20: in the WalletMetrics row of a wallet with exactly two transactions
\* std_time_between_txs and activity_regularity are defined numbers, and the
\* activity_regularity the sub-score comparisons read is a defined number in
\* every RiskFeatures row.
C20_SingleGapStatisticsDefined ==
    /\ \A i \in DOMAIN wallet_metrics :
           wallet_metrics[i].total_transactions = 2 =>
               /\ ~IsNaN(wallet_metrics[i].std_time_between_txs)
               /\ ~IsNaN(wallet_metrics[i].activity_regularity)
    /\ \A i \in DOMAIN risk_features :
           ~IsNaN(risk_features[i].activity_regularity)

\* the base the claimed bins give an account age, in tenths
ClaimedAgeTenths(age) ==
    IF RLe(age, <<30, 1>>) THEN 1
    ELSE IF RLe(age, <<90, 1>>) THEN 3
    ELSE IF RLe(age, <<180, 1>>) THEN 5
    ELSE IF RLe(age, <<365, 1>>) THEN 7
    ELSE 10

\* C21: experience is the base of the bins <=30: 0.1, <=90: 0.3, <=180: 0.5,
\* <=365: 0.7, >365: 1.0 of account_age_days (0.1 for an age of 0 too), plus
\* 0.2 for total_transactions above the 70th percentile of the batch, plus 0.1
\* for 0.1 < activity_regularity < 1.0, clamped to [0, 1].
C21_ExperienceBinsFromZero ==
    \A i \in DOMAIN risk_features :
        LET row    == risk_features[i]
            reg    == row.activity_regularity
            tenths == ClaimedAgeTenths(row.account_age_days)
                      + (IF AboveQuantile(<<row.total_transactions, 1>>,
                                          AsFloat(Col(risk_features,
                                                      "total_transactions")), 7, 10)
                         THEN 2 ELSE 0)
                      \* the model holds the square of activity_regularity
                      + (IF ~IsNaN(reg) /\ RLt(<<1, 100>>, reg) /\ RLt(reg, <<1, 1>>)
                         THEN 1 ELSE 0)
        IN 10 * row.experience_score = Unit * (IF tenths > 10 THEN 10 ELSE tenths)

\* financial_health of row i in tenths, when the deduction for a poor
\* repayment ratio is poor tenths: 1.0 less poor, less 0.2 for at most 2
\* kinds of action, less 0.2 for an age under 30 days, less 0.2 for gas above
\* the 90th percentile of the batch
FinancialHealthTenths(i, poor) ==
    LET row == risk_features[i]
        t   == 10 - poor
               - (IF row.action_diversity <= 2 THEN 2 ELSE 0)
               - (IF RLt(row.account_age_days, <<30, 1>>) THEN 2 ELSE 0)
               - (IF /\ MaxPositive(Col(risk_features, "avg_gas_per_tx"))
                     /\ AboveQuantile(row.avg_gas_per_tx,
                                      Col(risk_features, "avg_gas_per_tx"), 9, 10)
                  THEN 2 ELSE 0)
    IN IF t < 0 THEN 0 ELSE t

\* row i has the good-repayment 0.5 in repayment_behavior and no
\* poor-repayment 0.4 off financial_health
GoodRepayer(i) ==
    LET row == risk_features[i]
    IN /\ RLe(<<1, 1>>, row.repay_to_borrow_ratio)
       /\ 10 * row.repayment_behavior_score
            = Unit * ((IF row.borrow_count = 0 THEN 7 ELSE 5)
                      + (IF row.liquidation_count = 0 THEN 3 ELSE 0))
       /\ 10 * row.financial_health_score = Unit * FinancialHealthTenths(i, 0)

\* C22 as claimed: every wallet with borrow_count = 0 has
\* repay_to_borrow_ratio >= 1.0, the 0.5 of repayment_behavior and no 0.4 off
\* financial_health.
C22_ZeroBorrowIsGoodRepayer ==
    \A i \in DOMAIN risk_features :
        risk_features[i].borrow_count = 0 => GoodRepayer(i)

\* C22 amended: a wallet with borrow_count = 0 has repay_to_borrow_ratio =
\* repayBorrow_count; with a repayment it has the 0.5 of repayment_behavior
\* and no 0.4 off financial_health, without one its ratio is 0, it has no 0.5
\* and the 0.4 is taken off.
C22_ZeroBorrowRatioIsRepayCount ==
    \A i \in DOMAIN risk_features :
        LET row == risk_features[i]
        IN row.borrow_count = 0 =>
               /\ row.repay_to_borrow_ratio = <<row.repayBorrow_count, 1>>
               /\ row.repayBorrow_count >= 1 => GoodRepayer(i)
               /\ row.repayBorrow_count = 0 =>
                      /\ 10 * row.repayment_behavior_score
                           = Unit * (2 + (IF row.liquidation_count = 0 THEN 3 ELSE 0))
                      /\ 10 * row.financial_health_score
                           = Unit * FinancialHealthTenths(i, 4)

\* C22 witness: the features of a wallet that repaid without borrowing, next
\* to a wallet with transactions but neither a borrow nor a repayment.
C22_Witness ==
    \E i, j \in DOMAIN risk_features :
        /\ risk_features[i].borrow_count = 0
        /\ risk_features[i].repayBorrow_count >= 1
        /\ risk_features[j].borrow_count = 0
        /\ risk_features[j].repayBorrow_count = 0
        /\ risk_features[j].total_transactions > 0

\* the rows of the normalized table that belong to a wallet
RowsOf(address) == SelectSeq(transaction_df, LAMBDA r : r.wallet_address = address)
IsCounted(r) == r.compound_action \in Range(CountedActions)
CountColumn(action) ==
    CASE action = "mint"             -> "mint_count"
      [] action = "redeem"           -> "redeem_count"
      [] action = "redeemUnderlying" -> "redeemUnderlying_count"
      [] action = "borrow"           -> "borrow_count"
      [] action = "repayBorrow"      -> "repayBorrow_count"
      [] action = "liquidateBorrow"  -> "liquidateBorrow_count"

\* C23: a transaction whose label is outside the six counted actions adds to
\* total_transactions, to the success or failure count and one per distinct
\* label to action_diversity; the six counts, the denominator of the action
\* ratios, liquidation_count and repay_to_borrow_ratio are those of the
\* transactions with a counted label alone.
C23_UncountedLabelsOnlyInTotals ==
    pc = "features" =>
        \A g \in DOMAIN wallet_metrics :
            LET m      == wallet_metrics[g]
                rows   == RowsOf(m.wallet_address)
                known  == SelectSeq(rows, IsCounted)
                other  == SelectSeq(rows, LAMBDA r : ~IsCounted(r))
                n(a)   == Len(SelectSeq(known, LAMBDA r : r.compound_action = a))
                denom  == n("mint") + n("redeem") + n("redeemUnderlying")
                          + n("borrow") + n("repayBorrow")
                part(k) == IF denom > 0 THEN Rat(k, denom) ELSE Rat(0, 1)
            IN /\ m.total_transactions = Len(known) + Len(other)
               /\ m.successful_transactions
                    = Len(SelectSeq(known, LAMBDA r : r.is_error = 0))
                      + Len(SelectSeq(other, LAMBDA r : r.is_error = 0))
               /\ m.failed_transactions
                    = Len(SelectSeq(known, LAMBDA r : r.is_error = 1))
                      + Len(SelectSeq(other, LAMBDA r : r.is_error = 1))
               /\ m.action_diversity
                    = Cardinality({known[i].compound_action : i \in DOMAIN known})
                      + Cardinality({other[i].compound_action : i \in DOMAIN other})
               /\ \A a \in Range(CountedActions) : m[CountColumn(a)] = n(a)
               /\ m.supply_ratio = part(n("mint"))
               /\ m.withdraw_ratio = part(n("redeem") + n("redeemUnderlying"))
               /\ m.borrow_ratio = part(n("borrow"))
               /\ m.repay_ratio = part(n("repayBorrow"))
               /\ m.liquidation_count = n("liquidateBorrow")
               /\ m.repay_to_borrow_ratio
                    = Rat(n("repayBorrow"), Max(n("borrow"), 1))

\* C23 witness: the metrics of a wallet that has a successful and a failed
\* transaction of two labels outside the six, next to a borrow, a repayment
\* and a liquidation.
C23_Witness ==
    /\ pc = "features"
    /\ \E g \in DOMAIN wallet_metrics :
           LET rows == RowsOf(wallet_metrics[g].wallet_address)
           IN /\ \E i, j \in DOMAIN rows :
                     /\ ~IsCounted(rows[i]) /\ rows[i].is_error = 0
                     /\ ~IsCounted(rows[j]) /\ rows[j].is_error = 1
                     /\ rows[i].compound_action # rows[j].compound_action
              /\ wallet_metrics[g].borrow_count > 0
              /\ wallet_metrics[g].repayBorrow_count > 0
              /\ wallet_metrics[g].liquidation_count > 0

\* A positive double is hi * 2^26 + lo scaled by 2^e, its 53-bit significand
\* held in two limbs with 2^26 <= hi < 2^27 and lo < 2^26; 0.0 has hi = lo = 0.
Limb == 67108864
FloatZero == [hi |-> 0, lo |-> 0, e |-> 0]
FloatOne == [hi |-> Limb, lo |-> 0, e |-> -52]

\* the double one unit in the last place above a positive double
FloatNextUp(x) ==
    IF x.lo + 1 < Limb THEN [x EXCEPT !.lo = x.lo + 1]
    ELSE IF x.hi + 1 < 2 * Limb THEN [hi |-> x.hi + 1, lo |-> 0, e |-> x.e]
    ELSE [hi |-> Limb, lo |-> 0, e |-> x.e + 1]

\* the double one unit in the last place below a positive double
FloatNextDown(x) ==
    IF x.lo > 0 THEN [x EXCEPT !.lo = x.lo - 1]
    ELSE IF x.hi > Limb THEN [hi |-> x.hi - 1, lo |-> Limb - 1, e |-> x.e]
    ELSE [hi |-> 2 * Limb - 1, lo |-> Limb - 1, e |-> x.e - 1]

\* the least s with a * 2^s >= n
RECURSIVE ShiftTo(_, _)
ShiftTo(a, n) == IF a >= n THEN 0 ELSE 1 + ShiftTo(2 * a, n)

\* a / n in doubles for integers 0 <= a <= n, n > 0: the quotient rounded to
\* the nearest double, a tie to the even significand
Float64Div(a, n) ==
    IF a = 0 THEN FloatZero
    ELSE LET s    == ShiftTo(a, n)
             top  == a * 2^s
             hi   == (top * Limb) \div n
             r1   == (top * Limb) % n
             lo   == (r1 * Limb) \div n
             r2   == (r1 * Limb) % n
             down == [hi |-> hi, lo |-> lo, e |-> -52 - s]
         IN IF 2 * r2 > n \/ (2 * r2 = n /\ lo % 2 = 1)
            THEN FloatNextUp(down) ELSE down

\* the double that holds a ratio of the metrics
Float64(r) == Float64Div(r[1], r[2])

FloatLe(x, y) ==
    \/ x = FloatZero
    \/ /\ y # FloatZero
       /\ \/ x.e < y.e
          \/ x.e = y.e /\ x.hi < y.hi
          \/ x.e = y.e /\ x.hi = y.hi /\ x.lo <= y.lo

\* x + y in doubles, x >= y > 0: both significands carry three more bits
\* (guard, round and a sticky bit for what the alignment shifts out), and the
\* sum is rounded to the nearest double, a tie to the even significand
Float64AddOrdered(x, y) ==
    LET W      == 8 * Limb
        d      == x.e - y.e
        ylo8   == 8 * y.lo
        shHi   == IF d < 29 THEN y.hi \div 2^d ELSE 0
        shLo   == IF d < 29 THEN (ylo8 \div 2^d) + (y.hi % 2^d) * 2^(29 - d)
                  ELSE IF d < 57 THEN y.hi \div 2^(d - 29)
                  ELSE 0
        lost   == IF d < 29 THEN ylo8 % 2^d # 0
                  ELSE IF d < 57 THEN ylo8 # 0 \/ y.hi % 2^(d - 29) # 0
                  ELSE TRUE
        yLo    == IF lost /\ shLo % 2 = 0 THEN shLo + 1 ELSE shLo
        sumLo  == 8 * x.lo + yLo
        sumHi  == x.hi + shHi + (sumLo \div W)
        low    == sumLo % W
        carry  == sumHi >= 2 * Limb
        half   == (low \div 2) + (sumHi % 2) * (W \div 2)
        nLo    == IF ~carry THEN low
                  ELSE IF low % 2 = 1 /\ half % 2 = 0 THEN half + 1 ELSE half
        nHi    == IF carry THEN sumHi \div 2 ELSE sumHi
        down   == [hi |-> nHi, lo |-> nLo \div 8,
                   e |-> IF carry THEN x.e + 1 ELSE x.e]
        grs    == nLo % 8
    IN IF grs > 4 \/ (grs = 4 /\ down.lo % 2 = 1)
       THEN FloatNextUp(down) ELSE down

Float64Add(x, y) ==
    IF x = FloatZero THEN y
    ELSE IF y = FloatZero THEN x
    ELSE IF FloatLe(y, x) THEN Float64AddOrdered(x, y)
    ELSE Float64AddOrdered(y, x)

\* the four action ratios of a row of the metrics, as the doubles stored
ActionRatios(m) ==
    <<Float64(m.supply_ratio), Float64(m.withdraw_ratio),
      Float64(m.borrow_ratio), Float64(m.repay_ratio)>>

\* supply_ratio + withdraw_ratio + borrow_ratio + repay_ratio in doubles
RatioSum(m) ==
    LET r == ActionRatios(m)
    IN Float64Add(Float64Add(Float64Add(r[1], r[2]), r[3]), r[4])

\* the denominator of the ratios, from the counts of the row
RatioDenominator(m) ==
    m.mint_count + m.redeem_count + m.redeemUnderlying_count + m.borrow_count
    + m.repayBorrow_count

\* the ratios of a row are 0 when the denominator is 0, and each lies in
\* [0, 1] when it is positive
RatiosInUnitInterval(m) ==
    LET r == ActionRatios(m)
    IN IF RatioDenominator(m) = 0
       THEN \A k \in 1..4 : r[k] = FloatZero
       ELSE \A k \in 1..4 : FloatLe(FloatZero, r[k]) /\ FloatLe(r[k], FloatOne)

\* C24 as claimed: the four action ratios are 0 when the denominator
\* mint+redeem+redeemUnderlying+borrow+repayBorrow is 0; when it is positive
\* each is in [0, 1] and the four sum to exactly 1.
C24_RatiosSumToExactlyOne ==
    pc = "features" =>
        \A g \in DOMAIN wallet_metrics :
            LET m == wallet_metrics[g]
            IN /\ RatiosInUnitInterval(m)
               /\ RatioDenominator(m) > 0 => RatioSum(m) = FloatOne

\* C24 amended: the four action ratios are 0 when the denominator is 0; when
\* it is positive each is the double nearest its count over the denominator
\* and lies in [0, 1], the four counts add up to the denominator, and the
\* doubles sum to 1 or to one of the two doubles next below 1 or the double
\* next above 1.
C24_RatiosSumToOneRounded ==
    pc = "features" =>
        \A g \in DOMAIN wallet_metrics :
            LET m == wallet_metrics[g]
                n == RatioDenominator(m)
                r == ActionRatios(m)
            IN /\ RatiosInUnitInterval(m)
               /\ n > 0 =>
                    /\ r = <<Float64Div(m.mint_count, n),
                             Float64Div(m.redeem_count + m.redeemUnderlying_count, n),
                             Float64Div(m.borrow_count, n),
                             Float64Div(m.repayBorrow_count, n)>>
                    /\ RatioSum(m) \in {FloatNextDown(FloatNextDown(FloatOne)),
                                        FloatNextDown(FloatOne), FloatOne,
                                        FloatNextUp(FloatOne)}

\* C24 witness: the metrics of a wallet without any of the five actions next
\* to those of a wallet whose four ratios are all positive and sum to the
\* double below 1.
C24_Witness ==
    /\ pc = "features"
    /\ \E g \in DOMAIN wallet_metrics :
           LET m == wallet_metrics[g]
           IN /\ RatioDenominator(m) = 0
              /\ m.total_transactions > 0
    /\ \E g \in DOMAIN wallet_metrics :
           LET m == wallet_metrics[g]
           IN /\ RatioDenominator(m) > 0
              /\ \A k \in 1..4 : ActionRatios(m)[k] # FloatZero
              /\ RatioSum(m) = FloatNextDown(FloatOne)

\* the last query was a get_score_distribution that returned
DistributionReturned ==
    /\ reply # None
    /\ reply.op = "get_score_distribution"
    /\ reply.raised = ""

\* the k-th histogram bucket: closed below, open above, the last with 1000
InBucket(score, k) ==
    /\ 100 * (k - 1) <= score
    /\ score < 100 * k \/ (k = 10 /\ score = 1000)

\* C25: the distribution get_score_distribution returns after calculate_scores
\* counts every wallet once: each score is in 0..1000 and in exactly one of
\* the 10 buckets, each bucket holds the count of the scores in it, the bucket
\* counts sum to total_wallets, and so do the risk_categories counts.
C25_BucketsPartitionWallets ==
    DistributionReturned =>
        LET d     == reply.value
            table == returned[1]
        IN /\ d.total_wallets = Len(table)
           /\ \A i \in DOMAIN table :
                  /\ table[i].score \in 0..1000
                  /\ Cardinality({k \in 1..10 : InBucket(table[i].score, k)}) = 1
           /\ DOMAIN d.score_ranges = 1..10
           /\ \A k \in 1..10 :
                  d.score_ranges[k]
                      = Cardinality({i \in DOMAIN table : InBucket(table[i].score, k)})
           /\ SumSeq(d.score_ranges) = d.total_wallets
           /\ SumOver(DOMAIN d.risk_categories, d.risk_categories) = d.total_wallets

\* C25 witness: a distribution of two wallets, one with score 1000 and one
\* with a score on the lower edge of a bucket below, in two risk categories.
C25_Witness ==
    /\ DistributionReturned
    /\ reply.value.total_wallets = 2
    /\ reply.value.max_score = 1000
    /\ reply.value.min_score < 900
    /\ reply.value.min_score % 100 = 0
    /\ Cardinality(DOMAIN reply.value.risk_categories) = 2

\* the row of the table explain_score is to report for a wallet_id
RowReported(explanation, row) ==
    /\ explanation.score = row.score
    /\ explanation.risk_category = row.risk_category
    /\ explanation.risk_factors.liquidation_risk = row.liquidation_risk_component
    /\ explanation.risk_factors.behavioral_risk = row.behavioral_risk_component
    /\ explanation.risk_factors.financial_health = row.financial_health_component
    /\ explanation.risk_factors.repayment_behavior = row.repayment_behavior_component
    /\ explanation.risk_factors.experience_level = row.experience_component
    /\ explanation.risk_factors.anomaly_score = row.anomaly_score
    /\ explanation.wallet_metrics.total_transactions = row.total_transactions
    /\ explanation.wallet_metrics.liquidation_count = row.liquidation_count
    /\ explanation.wallet_metrics.success_rate = row.success_rate

\* what a query has to leave, given what calculate_scores last returned
QueryAnswers(last, answer) ==
    IF last = None THEN answer.raised = "ValueError"
    ELSE LET table  == last[1]
             stored == {i \in DOMAIN table : table[i].wallet_id = answer.arg}
         IN /\ answer.op = "get_score_distribution" =>
                   answer = Return("get_score_distribution", "", Distribution(table))
            /\ answer.op = "explain_score" =>
                   IF stored = {} THEN answer.raised = "ValueError"
                   ELSE /\ answer.raised = ""
                        /\ answer.value.wallet_id = answer.arg
                        /\ \E i \in stored : RowReported(answer.value, table[i])

\* C26: a query raises ValueError as long as no calculate_scores call has
\* completed; afterwards get_score_distribution reports on the table the
\* most recent completed call returned, explain_score(w) returns the row of w
\* for every wallet_id w stored in that table and raises ValueError for every
\* other address; no query changes the stored scores.
C26_QueriesReportLatestScores ==
    [][reply' # reply => /\ QueryAnswers(returned, reply')
                         /\ scores' = scores
                         /\ returned' = returned]_vars

=============================================================================
